---- MODULE Spec2Model ----
(***************************************************************************)
(* Model of churchland_pipeline_python/acquisition.py: the ingestion of    *)
(* recording sessions (Session.populate), of behavior recordings           *)
(* (BehaviorRecording.make) and of ephys recordings (EphysRecording.make). *)
(*                                                                         *)
(* The catalog is the set of rows of each table.  The file system is an    *)
(* input.  Names are sequences of one-character strings, so that Python's  *)
(* sorted() and the regular expressions of the source are computed, not    *)
(* assumed.                                                                *)
(*                                                                         *)
(* Behaviour of the collaborators the source calls (DataJoint on MySQL,    *)
(* which DataJoint connects to with sql_mode STRICT_ALL_TABLES):           *)
(*   - insert1 raises when the row has a field that is not in the table    *)
(*     heading (ignore_extra_fields defaults to False), when a value is    *)
(*     not valid for its column, when a required attribute is missing and  *)
(*     when the primary key is already present;                            *)
(*   - Python's next() on an exhausted iterator raises StopIteration.      *)
(***************************************************************************)
EXTENDS Integers, Sequences, FiniteSets, TLC

VARIABLES
    \* ---- the environment
    fs,                 \* fs[monkey][name]: the entry `name` of the monkey's raw directory
    strictDateCompare,  \* whether the server rejects a comparison of a date column with a non-date string
    \* ---- the catalog
    Session,            \* rows of Session
    Notes,              \* rows of Session.Notes
    Hardware,           \* rows of Session.Hardware
    BehaviorRecording,  \* rows of BehaviorRecording
    EphysRecording,     \* rows of EphysRecording
    Channel,            \* rows of EphysRecording.Channel
    \* ---- Session.populate
    pc,                 \* "idle", or the handler that is running
    args,               \* arguments of the current (or last) Session.populate call
    prevArgs,           \* arguments of the call before it
    startCat,           \* Session, Notes and Hardware rows when the current call started
    candidates,         \* session_dates after line 126
    session_dates,      \* the part of session_dates the loop of line 128 has not reached
    log,                \* what the loop did with each date it reached
    outcome,            \* how the last call of a handler ended
    \* ---- BehaviorRecording.make
    speedgoat_files,    \* os.listdir(speedgoat_path)
    \* ---- EphysRecording.make
    blackrock_files,    \* os.listdir(blackrock_path)
    nsx_path,           \* the matching files, in listing order
    i,                  \* index of the next file of nsx_path (0-based)
    key,                \* the dict `key`
    headersRead,        \* extended_headers of each file opened, by file index
    openHandles,        \* file indices whose NsxFile is open
    channelKeys         \* the keys handed to Channel.insert1, in order

envVars == <<fs, strictDateCompare, speedgoat_files, blackrock_files>>
sessionTables == <<Session, Notes, Hardware>>
sessionRun == <<args, prevArgs, startCat, candidates, session_dates, log>>
ephysRun == <<nsx_path, i, key, headersRead, openHandles, channelKeys>>
vars == <<fs, strictDateCompare, Session, Notes, Hardware, BehaviorRecording,
          EphysRecording, Channel, pc, args, prevArgs, startCat, candidates,
          session_dates, log, outcome, speedgoat_files, blackrock_files,
          nsx_path, i, key, headersRead, openHandles, channelKeys>>

(***************************************************************************)
(* Strings                                                                 *)
(***************************************************************************)
\* The characters used, in code point order.
Chars == <<"-", ".", "0", "1", "2", "3", "4", "5", "6", "7", "8", "9", "_",
           "a", "b", "c", "d", "e", "f", "g", "h", "i", "k", "m", "n", "o", "p",
           "r", "s", "t", "u", "w", "x", "y">>

Ord(c) == CHOOSE n \in 1..Len(Chars) : Chars[n] = c

IsDigit(c) == c \in {"0", "1", "2", "3", "4", "5", "6", "7", "8", "9"}

\* Python's < on str: by code point, a proper prefix first.
RECURSIVE StrLess(_, _)
StrLess(a, b) ==
    IF b = <<>> THEN FALSE
    ELSE IF a = <<>> THEN TRUE
    ELSE IF a[1] # b[1] THEN Ord(a[1]) < Ord(b[1])
    ELSE StrLess(Tail(a), Tail(b))

\* sorted(list(...)) of a set of names.
RECURSIVE Sorted(_)
Sorted(S) ==
    IF S = {} THEN <<>>
    ELSE LET m == CHOOSE x \in S : \A y \in S \ {x} : StrLess(x, y)
         IN  <<m>> \o Sorted(S \ {m})

\* s has the literal w at position p (1-based).
HasAt(s, p, w) ==
    /\ p >= 1
    /\ p + Len(w) - 1 <= Len(s)
    /\ \A n \in 1..Len(w) : s[p + n - 1] = w[n]

\* \d{4}-\d{2}-\d{2} matches s at position p.
DatePatternAt(s, p) ==
    /\ p >= 1
    /\ p + 9 <= Len(s)
    /\ \A n \in {0, 1, 2, 3, 5, 6, 8, 9} : IsDigit(s[p + n])
    /\ s[p + 4] = "-"
    /\ s[p + 7] = "-"

\* re.search(r'\d{4}-\d{2}-\d{2}', d) is not None
SearchDatePattern(d) == \E p \in 1..Len(d) : DatePatternAt(d, p)

\* The whole of s is YYYY-MM-DD: what a date column accepts.
IsDateLiteral(s) == Len(s) = 10 /\ DatePatternAt(s, 1)

D1 == <<"2", "0", "2", "1", "-", "0", "1", "-", "0", "1">>
D2 == <<"2", "0", "2", "1", "-", "0", "1", "-", "0", "2">>
D1x == D1 \o <<"x">>
Scratch == <<"s", "c", "r", "a", "t", "c", "h">>

(***************************************************************************)
(* The environment of Session.populate                                     *)
(***************************************************************************)
\* lab.Monkey entries; each has its own raw directory (getrawpath).
Monkeys == {"A", "B"}

\* A session directory: whether it lists speedgoat and blackrock, and its
\* first file matching .*notes\.txt: none ("absent"), one that is read and
\* stored ("ok"), or one whose open, read or insert raises ("bad": unreadable,
\* undecodable, or longer than the 4095 characters of session_notes).
Shapes == [speedgoat : BOOLEAN, blackrock : BOOLEAN, notes : {"absent", "ok", "bad"}]

Complete == [speedgoat |-> TRUE, blackrock |-> TRUE, notes |-> "ok"]

NoNotes == [Complete EXCEPT !.notes = "absent"]
NoEphys == [Complete EXCEPT !.blackrock = FALSE]

\* The raw directories considered.  Monkey A: any session directory for the
\* first date, a complete or incomplete one for the second, beside entries
\* that are no dates.  Monkey B: the first date.
TreesA ==
    { t \in UNION { [S -> Shapes] : S \in SUBSET {D1, D2, D1x, Scratch} } :
        /\ D2 \in DOMAIN t => t[D2] \in {Complete, NoNotes, NoEphys, [NoEphys EXCEPT !.speedgoat = FALSE]}
        /\ D1x \in DOMAIN t => t[D1x] = NoNotes
        /\ Scratch \in DOMAIN t => t[Scratch] = Complete }

TreesB == { t \in UNION { [S -> Shapes] : S \in SUBSET {D1} } :
              D1 \in DOMAIN t => t[D1] = Complete }

\* The `dates` argument: empty (the default), or a list of the user.
DateArgs == { {}, {D2, Scratch} }

NoArgs == [monkey |-> "none", dates |-> {}]

\* Task.contents: every task's task_controller_hardware is Speedgoat, so
\* behavior_dir is 'speedgoat'; the default neural_signal_processor is
\* Cerebus, so ephys_dir is 'blackrock'.  populate is modelled for these.

(***************************************************************************)
(* Session.populate                                                        *)
(***************************************************************************)
SessionRow(date, monkey) ==
    [session_date |-> date, monkey |-> monkey, session_problem |-> FALSE]

SessionKey(date, monkey) == [session_date |-> date, monkey |-> monkey]

\* self & {'session_date': date}
RestrictByDate(date) == { s \in Session : s.session_date = date }

\* raw_dir = sorted(list(os.listdir(raw_path)))
RawDir(monkey) == Sorted(DOMAIN fs[monkey])

\* Lines 118-123: the user's list restricts the listing, else the pattern does.
ScanDates(raw_dir, dates) ==
    IF dates # {}
    THEN SelectSeq(raw_dir, LAMBDA d : d \in dates)
    ELSE SelectSeq(raw_dir, LAMBDA d : SearchDatePattern(d))

\* Line 126: the dates with no Session row.
FilterDates(scanned) ==
    SelectSeq(scanned, LAMBDA date : RestrictByDate(date) = {})

\* Line 126 raises when the server rejects the comparison of session_date
\* with a string that is no date.
FilterRaises(scanned) ==
    /\ strictDateCompare
    /\ \E n \in 1..Len(scanned) : ~IsDateLiteral(scanned[n])

\* Lines 98-126.
PopulateStart(monkey, dates) ==
    /\ pc = "idle"
    /\ pc' = IF FilterRaises(ScanDates(RawDir(monkey), dates)) THEN "idle" ELSE "populate"
    /\ outcome' = IF FilterRaises(ScanDates(RawDir(monkey), dates)) THEN "raised" ELSE "none"
    /\ args' = [monkey |-> monkey, dates |-> dates]
    /\ prevArgs' = args
    /\ startCat' = <<Session, Notes, Hardware>>
    /\ candidates' = IF FilterRaises(ScanDates(RawDir(monkey), dates)) THEN <<>>
                     ELSE FilterDates(ScanDates(RawDir(monkey), dates))
    /\ session_dates' = candidates'
    /\ log' = <<>>
    /\ UNCHANGED <<envVars, sessionTables, BehaviorRecording, EphysRecording, Channel, ephysRun>>

\* Did, with the StopIteration of line 149 left uncaught.
DidEphysUncaught(date, monkey) ==
    LET dir == fs[monkey][date] IN
    IF ~dir.speedgoat THEN "missing behavior"
    ELSE IF ~dir.blackrock \/ ~IsDateLiteral(date) \/ SessionRow(date, monkey) \in Session
    THEN "raised session"
    ELSE IF dir.notes = "bad" THEN "raised notes"
    ELSE "inserted"

\* What one iteration of the loop of line 128 does with `date`:
\*   "missing behavior" / "missing ephys"  a skip (lines 140-141, 151-152)
\*   "raised session"   self.insert1 raises (line 159): nothing inserted
\*   "raised notes"     reading or inserting the notes raises (lines 167-168)
\*   "inserted"         the iteration reaches its end (line 171)
Did(date, monkey) ==
    LET dir == fs[monkey][date] IN
    IF ~dir.speedgoat THEN "missing behavior"
    ELSE IF ~dir.blackrock THEN "missing ephys"
    ELSE IF ~IsDateLiteral(date) \/ SessionRow(date, monkey) \in Session THEN "raised session"
    ELSE IF dir.notes = "bad" THEN "raised notes"
    ELSE "inserted"

Raised(did) == did \in {"raised session", "raised notes"}

\* Line 159.
SessionAfter(date, monkey) ==
    IF Did(date, monkey) \in {"raised notes", "inserted"}
    THEN Session \cup {SessionRow(date, monkey)}
    ELSE Session

\* Lines 162-168.
NotesAfter(date, monkey) ==
    IF Did(date, monkey) = "inserted" /\ fs[monkey][date].notes = "ok"
    THEN Notes \cup {SessionKey(date, monkey)}
    ELSE Notes

\* HardwareAfter, with line 171 inside the else branch of the notes.
HardwareWithNotesOnly(date, monkey) ==
    IF fs[monkey][date].speedgoat /\ fs[monkey][date].blackrock
       /\ IsDateLiteral(date) /\ fs[monkey][date].notes = "ok"
    THEN Hardware \cup {SessionKey(date, monkey)}
    ELSE Hardware

\* Line 171.
HardwareAfter(date, monkey) ==
    IF Did(date, monkey) = "inserted"
    THEN Hardware \cup {SessionKey(date, monkey)}
    ELSE Hardware

\* One iteration of the loop of line 128 (lines 130-171).
ProcessDate ==
    /\ pc = "populate"
    /\ session_dates # <<>>
    /\ LET date == Head(session_dates)
           did == Did(date, args.monkey)
       IN  /\ Session' = SessionAfter(date, args.monkey)
           /\ Notes' = NotesAfter(date, args.monkey)
           /\ Hardware' = HardwareAfter(date, args.monkey)
           /\ log' = Append(log, [date |-> date, did |-> did])
           /\ session_dates' = Tail(session_dates)
           /\ pc' = IF Raised(did) THEN "idle" ELSE "populate"
           /\ outcome' = IF Raised(did) THEN "raised" ELSE outcome
    /\ UNCHANGED <<envVars, args, prevArgs, startCat, candidates,
                   BehaviorRecording, EphysRecording, Channel, ephysRun>>

\* The loop of line 128 is exhausted: populate returns.
PopulateReturn ==
    /\ pc = "populate"
    /\ session_dates = <<>>
    /\ pc' = "idle"
    /\ outcome' = "returned"
    /\ UNCHANGED <<envVars, sessionTables, sessionRun,
                   BehaviorRecording, EphysRecording, Channel, ephysRun>>

EphysIdle ==
    /\ nsx_path = <<>>
    /\ i = 0
    /\ key = <<>>
    /\ headersRead = <<>>
    /\ openHandles = {}
    /\ channelKeys = <<>>

Init ==
    /\ fs \in [Monkeys -> TreesA \cup TreesB]
    /\ fs["A"] \in TreesA
    /\ fs["B"] \in TreesB
    /\ strictDateCompare \in BOOLEAN
    /\ speedgoat_files = <<>>
    /\ blackrock_files = <<>>
    /\ Session = {}
    /\ Notes = {}
    /\ Hardware = {}
    /\ BehaviorRecording = {}
    /\ EphysRecording = {}
    /\ Channel = {}
    /\ pc = "idle"
    /\ args = NoArgs
    /\ prevArgs = NoArgs
    /\ startCat = <<{}, {}, {}>>
    /\ candidates = <<>>
    /\ session_dates = <<>>
    /\ log = <<>>
    /\ outcome = "none"
    /\ EphysIdle

Next ==
    \/ \E monkey \in Monkeys, dates \in DateArgs : PopulateStart(monkey, dates)
    \/ ProcessDate
    \/ PopulateReturn

Spec == Init /\ [][Next]_vars

(***************************************************************************)
(* Properties of Session.populate                                          *)
(***************************************************************************)
\* A call has started and line 126 did not raise.
Scanned == ScanDates(RawDir(args.monkey), args.dates)
FilterDone == args # NoArgs /\ ~(outcome = "raised" /\ log = <<>>)
LogDates == [n \in 1..Len(log) |-> log[n].date]
MissingDir(date) ==
    ~fs[args.monkey][date].speedgoat \/ ~fs[args.monkey][date].blackrock
NoRowFor(date) ==
    /\ \A s \in Session : s.session_date # date
    /\ \A s \in Notes : s.session_date # date
    /\ \A s \in Hardware : s.session_date # date
\* The loop did not stop at its n-th date.
WentOnAfter(n) == n < Len(log) \/ pc = "populate" \/ outcome = "returned"

\* C1: a second call of Session.populate with the same arguments, on the same
\* directory tree, right after the first, leaves the Session, Notes and
\* Hardware rows as the first call left them; and no call inserts a Session
\* row for a date that already had one.
C1_Idempotent ==
    /\ (pc = "idle" /\ outcome # "none" /\ prevArgs = args) =>
           <<Session, Notes, Hardware>> = startCat
    /\ \A n \in 1..Len(log) :
           log[n].did \in {"inserted", "raised notes"} =>
               \A s \in startCat[1] : s.session_date # log[n].date

\* C2: with no explicit date list, every candidate is exactly of the form
\* YYYY-MM-DD, the candidates are in lexicographic order, and the entries
\* 2021-01-01, 2021-01-02 and scratch of an uncataloged directory give
\* exactly [2021-01-01, 2021-01-02].
C2_CandidatesAreDates ==
    (FilterDone /\ args.dates = {}) =>
        /\ \A n \in 1..Len(candidates) : IsDateLiteral(candidates[n])
        /\ \A n \in 1..(Len(candidates) - 1) : StrLess(candidates[n], candidates[n + 1])
        /\ (DOMAIN fs[args.monkey] = {D1, D2, Scratch} /\ startCat[1] = {}) =>
               candidates = <<D1, D2>>

\* C3: a scanned date is excluded from the candidates exactly when a Session
\* row with that date exists for the monkey being ingested.
C3_ExcludedIffOwnRow ==
    FilterDone =>
        \A n \in 1..Len(Scanned) :
            (\A k \in 1..Len(candidates) : candidates[k] # Scanned[n])
                <=> (SessionRow(Scanned[n], args.monkey) \in startCat[1])

\* C4: a candidate whose directory lacks speedgoat or blackrock is skipped:
\* the iteration ends in the "missing ..." report and raises nothing, no
\* Session, Notes or Hardware row exists for its date, and the loop goes on
\* with the dates after it (no candidate is dropped).
C4_MissingDirSkipped ==
    /\ \A n \in 1..Len(log) :
           MissingDir(log[n].date) =>
               /\ log[n].did \in {"missing behavior", "missing ephys"}
               /\ NoRowFor(log[n].date)
               /\ WentOnAfter(n)
    /\ FilterDone /\ (pc = "populate" \/ outcome = "returned") =>
           LogDates \o session_dates = candidates

\* A run skipped one date for a missing directory, inserted the next date and returned.
C4_Witness ==
    /\ pc = "idle"
    /\ outcome = "returned"
    /\ \E n \in 1..(Len(log) - 1) :
           /\ MissingDir(log[n].date)
           /\ log[n].did \in {"missing behavior", "missing ephys"}
           /\ log[n + 1].did = "inserted"

\* C8: a candidate date with both subdirectories and no notes file gets its
\* Session row and its Hardware row, gets no Notes row, and the loop goes on
\* with the dates after it.
C8_MissingNotesNonFatal ==
    \A n \in 1..Len(log) :
        LET date == log[n].date IN
        (/\ IsDateLiteral(date)
         /\ ~MissingDir(date)
         /\ fs[args.monkey][date].notes = "absent") =>
            /\ log[n].did = "inserted"
            /\ SessionRow(date, args.monkey) \in Session
            /\ SessionKey(date, args.monkey) \in Hardware
            /\ SessionKey(date, args.monkey) \notin Notes
            /\ WentOnAfter(n)

\* A run inserted a date that has no notes file and then processed a later date.
C8_Witness ==
    \E n \in 1..(Len(log) - 1) :
        /\ fs[args.monkey][log[n].date].notes = "absent"
        /\ ~MissingDir(log[n].date)
        /\ log[n].did = "inserted"
        /\ SessionKey(log[n].date, args.monkey) \in Hardware \ Notes

\* C10: once a call of Session.populate has returned, every Session row has
\* its Hardware row, also a row left without it by an earlier, aborted call.
C10_HardwareRepaired ==
    (pc = "idle" /\ outcome = "returned") =>
        \A s \in Session : SessionKey(s.session_date, s.monkey) \in Hardware

(***************************************************************************)
(* Python dicts and DataJoint's insert1                                    *)
(***************************************************************************)
\* d[f] = v
Put(d, f, v) == [x \in DOMAIN d \cup {f} |-> IF x = f THEN v ELSE d[x]]

\* The row restricted to the fields of `fields`.
Proj(d, fields) == [x \in DOMAIN d \cap fields |-> d[x]]

\* insert1(row) raises: a field that is not in the heading, a required
\* attribute that is missing, or a primary key that is already there.
InsertRaises(row, rows, heading, required, primary) ==
    \/ ~(DOMAIN row \subseteq heading)
    \/ ~(required \subseteq DOMAIN row)
    \/ \E r \in rows : Proj(r, primary) = Proj(row, primary)

\* key_source = Session - 'session_problem', as primary keys.
KeySource == { SessionKey(s.session_date, s.monkey) : s \in {r \in Session : ~r.session_problem} }

\* Every sequence without repetition of elements of S: a directory listing.
RECURSIVE Listings(_)
Listings(S) ==
    {<<>>} \cup UNION { { <<x>> \o l : l \in Listings(S \ {x}) } : x \in S }

(***************************************************************************)
(* BehaviorRecording.make                                                  *)
(***************************************************************************)
DotSummary == <<".", "s", "u", "m", "m", "a", "r", "y">>
ASummary == <<"a">> \o DotSummary
BSummary == <<"b">> \o DotSummary
ASummaryBak == ASummary \o <<".", "b", "a", "k">>
AData == <<"a", ".", "d", "a", "t", "a">>
SpeedgoatNames == {ASummary, BSummary, ASummaryBak, AData}

\* re.search('.*\.summary', f)
SearchSummary(f) == \E p \in 1..Len(f) : HasAt(f, p, DotSummary)

\* Line 212.
BehaviorSampleRate == 1000

BehaviorHeading ==
    {"session_date", "monkey", "behavior_summary_file_path", "behavior_sample_rate"}

\* Line 206: next(filter(...)) is the first match; none raises StopIteration.
SummaryMatches == SelectSeq(speedgoat_files, LAMBDA f : SearchSummary(f))

\* Lines 209-212.  The path is kept as the file's name under speedgoat/
\* (ensureglobal belongs to the reference module).
BehaviorRow(k) ==
    Put(Put(k, "behavior_summary_file_path", Head(SummaryMatches)),
        "behavior_sample_rate", BehaviorSampleRate)

\* BehaviorRecording.make(key), for a key populate hands it: one of
\* key_source with no BehaviorRecording row.
BehaviorMake(k) ==
    /\ pc = "idle"
    /\ k \in KeySource
    /\ \A r \in BehaviorRecording : Proj(r, DOMAIN k) # k
    /\ IF SummaryMatches = <<>>
       THEN /\ outcome' = "raised"
            /\ UNCHANGED BehaviorRecording
       ELSE /\ outcome' = IF InsertRaises(BehaviorRow(k), BehaviorRecording, BehaviorHeading,
                                          BehaviorHeading \ {"behavior_sample_rate"}, DOMAIN k)
                          THEN "raised" ELSE "returned"
            /\ BehaviorRecording' =
                   IF InsertRaises(BehaviorRow(k), BehaviorRecording, BehaviorHeading,
                                   BehaviorHeading \ {"behavior_sample_rate"}, DOMAIN k)
                   THEN BehaviorRecording
                   ELSE BehaviorRecording \cup {BehaviorRow(k)}
    /\ UNCHANGED <<envVars, sessionTables, sessionRun, pc, EphysRecording, Channel, ephysRun>>

SessionIdle ==
    /\ pc = "idle"
    /\ args = NoArgs
    /\ prevArgs = NoArgs
    /\ startCat = <<{}, {}, {}>>
    /\ candidates = <<>>
    /\ session_dates = <<>>
    /\ log = <<>>
    /\ outcome = "none"

\* One session of monkey A, flagged as a problem or not, and any listing of
\* its speedgoat directory.
InitBehavior ==
    /\ fs = [m \in Monkeys |-> <<>>]
    /\ strictDateCompare = FALSE
    /\ speedgoat_files \in Listings(SpeedgoatNames)
    /\ blackrock_files = <<>>
    /\ \E problem \in BOOLEAN :
           Session = {[SessionRow(D1, "A") EXCEPT !.session_problem = problem]}
    /\ Notes = {}
    /\ Hardware = {SessionKey(D1, "A")}
    /\ BehaviorRecording = {}
    /\ EphysRecording = {}
    /\ Channel = {}
    /\ SessionIdle
    /\ EphysIdle

NextBehavior == \E k \in KeySource : BehaviorMake(k)

SpecBehavior == InitBehavior /\ [][NextBehavior]_vars

\* C5: BehaviorRecording.make raises and inserts no row whenever the number
\* of files of speedgoat/ that match the summary pattern is not exactly one.
C5_AmbiguousSummaryRaises ==
    (outcome # "none" /\ Len(SummaryMatches) # 1) =>
        (outcome = "raised" /\ BehaviorRecording = {})

(***************************************************************************)
(* EphysRecording.make                                                     *)
(***************************************************************************)
Neu001 == <<"n", "e", "u", "_", "0", "0", "1", ".", "n", "s", "5">>
Emg001 == <<"e", "m", "g", "_", "0", "0", "1", ".", "n", "s", "3">>
ACcf == <<"a", ".", "c", "c", "f">>
BlackrockNames == {Neu001, Emg001, ACcf}

\* (emg|neu|neu_emg)_00\d\.ns\d matches f at position p.
NsxPatternAt(f, p) ==
    \E w \in {<<"e", "m", "g">>, <<"n", "e", "u">>, <<"n", "e", "u", "_", "e", "m", "g">>} :
        LET q == p + Len(w) IN
        /\ q + 7 <= Len(f)
        /\ HasAt(f, p, w)
        /\ HasAt(f, q, <<"_", "0", "0">>)
        /\ IsDigit(f[q + 3])
        /\ HasAt(f, q + 4, <<".", "n", "s">>)
        /\ IsDigit(f[q + 7])

\* re.search(r'.*(emg|neu|neu_emg)_00\d\.ns\d', f) is not None
SearchNsx(f) == \E p \in 1..Len(f) : NsxPatternAt(f, p)

\* Electrode labels of the vendor file headers.
L137 == <<"1", "3", "7">>
LAinp3 == <<"a", "i", "n", "p", "3">>
LAinp15 == <<"a", "i", "n", "p", "1", "5">>
LAinp16 == <<"a", "i", "n", "p", "1", "6">>
LWeird == <<"w", "e", "i", "r", "d">>
Labels == {L137, LAinp3, LAinp15, LAinp16, LWeird}

\* The most electrodes of a file.
MaxElectrodes == 2

\* extended_headers of a file: electrode n has ElectrodeID n.
Headers ==
    UNION { { [n \in 1..len |-> [ElectrodeID |-> n, ElectrodeLabel |-> ls[n]]] :
                ls \in [1..len -> Labels] } : len \in 0..MaxElectrodes }

EphysHeading ==
    {"session_date", "monkey", "ephys_file_id",
     "ephys_file_path", "ephys_sample_rate", "ephys_duration"}
EphysPrimary == {"session_date", "monkey", "ephys_file_id"}
ChannelHeading ==
    {"session_date", "monkey", "ephys_file_id",
     "channel_index", "channel_id", "channel_label"}
ChannelPrimary == {"session_date", "monkey", "ephys_file_id", "channel_index"}

\* LabelBranch, with the pattern of line 292 without its final $.
LabelBranchUnanchored(label) ==
    IF Len(label) >= 1 /\ IsDigit(label[1]) THEN "brain"
    ELSE IF \E p \in 1..Len(label) :
                /\ HasAt(label, p, <<"a", "i", "n", "p">>)
                /\ p + 4 <= Len(label)
                /\ label[p + 4] \in {"1", "2", "3", "4", "5", "6", "7", "8"}
    THEN "emg"
    ELSE IF label = <<"a", "i", "n", "p", "1", "5">> THEN "stim"
    ELSE IF label = <<"a", "i", "n", "p", "1", "6">> THEN "sync"
    ELSE "none"

\* Lines 289-299: the label assigned to an electrode label, "none" when no
\* branch is taken.
LabelBranch(label) ==
    IF Len(label) >= 1 /\ IsDigit(label[1]) THEN "brain"
    ELSE IF \E p \in 1..Len(label) :
                /\ HasAt(label, p, <<"a", "i", "n", "p">>)
                /\ p + 4 = Len(label)
                /\ label[p + 4] \in {"1", "2", "3", "4", "5", "6", "7", "8"}
    THEN "emg"
    ELSE IF label = LAinp15 THEN "stim"
    ELSE IF label = LAinp16 THEN "sync"
    ELSE "none"

\* Line 286: key = primary_key.copy().
ChannelBase(primary_key, previous) == primary_key

\* Lines 286-299: the key of channel j (0-based), `previous` being `key`
\* as the iteration finds it.
ChannelKey(primary_key, previous, j, elec) ==
    LET k == Put(Put(ChannelBase(primary_key, previous), "channel_index", j),
                 "channel_id", elec.ElectrodeID)
    IN  IF LabelBranch(elec.ElectrodeLabel) = "none" THEN k
        ELSE Put(k, "channel_label", LabelBranch(elec.ElectrodeLabel))

\* The loop of line 285 from channel j on: the keys handed to
\* Channel.insert1, up to and including the first one that raises.
RECURSIVE ChannelLoop(_, _, _, _, _)
ChannelLoop(primary_key, previous, headers, j, rows) ==
    IF j >= Len(headers) THEN <<>>
    ELSE LET k == ChannelKey(primary_key, previous, j, headers[j + 1]) IN
         IF InsertRaises(k, rows, ChannelHeading, ChannelHeading \ {"channel_id"}, ChannelPrimary)
         THEN <<k>>
         ELSE <<k>> \o ChannelLoop(primary_key, k, headers, j + 1, rows \cup {k})

\* Lines 244-261.  fetch1 of line 251 raises unless the session has exactly
\* one neural signal processor among its Hardware rows.
EphysMakeStart(k) ==
    /\ pc = "idle"
    /\ k \in KeySource
    /\ \A r \in EphysRecording : Proj(r, DOMAIN k) # k
    /\ pc' = IF k \in Hardware THEN "ephys" ELSE "idle"
    /\ outcome' = IF k \in Hardware THEN "none" ELSE "raised"
    /\ nsx_path' = IF k \in Hardware
                   THEN SelectSeq(blackrock_files, LAMBDA f : SearchNsx(f))
                   ELSE <<>>
    /\ i' = 0
    /\ key' = k
    /\ headersRead' = <<>>
    /\ openHandles' = {}
    /\ channelKeys' = <<>>
    /\ UNCHANGED <<envVars, sessionTables, sessionRun, BehaviorRecording, EphysRecording, Channel>>

\* Lines 265-282: the EphysRecording row of file i.  The values read from
\* the file are kept as the names of what is read.
EphysRow ==
    Put(Put(Put(Put(key, "ephys_file_id", i),
        "ephys_sample_rate", "samp_per_s"),
        "ephys_duration", "data_time_s"),
        "ephys_file_path", nsx_path[i + 1])

\* One iteration of the loop of line 263 (lines 265-304) on a file with the
\* given headers, whose first channel's data can be read or not.
ProcessFile(headers, readable) ==
    /\ pc = "ephys"
    /\ i < Len(nsx_path)
    /\ headersRead' = Append(headersRead, [extended_headers |-> headers, readable |-> readable])
    /\ LET primary_key == Put(key, "ephys_file_id", i)
           getdataRaises == headers = <<>> \/ ~readable
           selfRaises == InsertRaises(EphysRow, EphysRecording, EphysHeading,
                                      EphysHeading, EphysPrimary)
           keys == ChannelLoop(primary_key, EphysRow, headers, 0, Channel)
           last == keys[Len(keys)]
           channelRaises == InsertRaises(last, Channel \cup {keys[n] : n \in 1..(Len(keys) - 1)},
                                         ChannelHeading,
                                         ChannelHeading \ {"channel_id"}, ChannelPrimary)
       IN  IF getdataRaises \/ selfRaises
           THEN /\ pc' = "idle"
                /\ outcome' = "raised"
                /\ key' = IF getdataRaises THEN primary_key ELSE EphysRow
                /\ openHandles' = openHandles \cup {i}
                /\ UNCHANGED <<EphysRecording, Channel, channelKeys, i>>
           ELSE /\ EphysRecording' = EphysRecording \cup {EphysRow}
                /\ channelKeys' = channelKeys \o keys
                /\ key' = last
                /\ Channel' = Channel \cup
                       { keys[n] : n \in 1..(IF channelRaises THEN Len(keys) - 1 ELSE Len(keys)) }
                /\ pc' = IF channelRaises THEN "idle" ELSE "ephys"
                /\ outcome' = IF channelRaises THEN "raised" ELSE outcome
                /\ openHandles' = IF channelRaises THEN openHandles \cup {i} ELSE openHandles
                /\ i' = IF channelRaises THEN i ELSE i + 1
    /\ UNCHANGED <<envVars, sessionTables, sessionRun, BehaviorRecording, nsx_path>>

\* The loop of line 263 is exhausted: make returns.
EphysMakeReturn ==
    /\ pc = "ephys"
    /\ i = Len(nsx_path)
    /\ pc' = "idle"
    /\ outcome' = "returned"
    /\ UNCHANGED <<envVars, sessionTables, sessionRun, BehaviorRecording,
                   EphysRecording, Channel, ephysRun>>

\* One session of monkey A, with or without its Hardware row, and any
\* listing of its blackrock directory.
InitEphys ==
    /\ fs = [m \in Monkeys |-> <<>>]
    /\ strictDateCompare = FALSE
    /\ speedgoat_files = <<>>
    /\ blackrock_files \in Listings(BlackrockNames)
    /\ Session = {SessionRow(D1, "A")}
    /\ Notes = {}
    /\ Hardware \in {{}, {SessionKey(D1, "A")}}
    /\ BehaviorRecording = {}
    /\ EphysRecording = {}
    /\ Channel = {}
    /\ SessionIdle
    /\ EphysIdle

NextEphys ==
    \/ \E k \in KeySource : EphysMakeStart(k)
    \/ \E headers \in Headers, readable \in BOOLEAN : ProcessFile(headers, readable)
    \/ EphysMakeReturn

SpecEphys == InitEphys /\ [][NextEphys]_vars

(***************************************************************************)
(* Properties of EphysRecording.make                                       *)
(***************************************************************************)
\* The label the claims give an electrode label: a leading digit is brain,
\* ainp1..ainp8 is emg, ainp15 is stim, ainp16 is sync, anything else none.
ClaimedLabel(label) ==
    IF Len(label) >= 1 /\ IsDigit(label[1]) THEN "brain"
    ELSE IF Len(label) = 5 /\ HasAt(label, 1, <<"a", "i", "n", "p">>)
            /\ label[5] \in {"1", "2", "3", "4", "5", "6", "7", "8"} THEN "emg"
    ELSE IF label = LAinp15 THEN "stim"
    ELSE IF label = LAinp16 THEN "sync"
    ELSE "none"

LabelIn(k) == IF "channel_label" \in DOMAIN k THEN k["channel_label"] ELSE "none"

\* The electrode a channel key was made for.
ElectrodeOf(k) ==
    headersRead[k["ephys_file_id"] + 1].extended_headers[k["channel_index"] + 1]

\* Every file opened so far is well formed: its first channel can be read
\* and every electrode label is one the rules classify.
WellFormed ==
    \A n \in 1..Len(headersRead) :
        /\ headersRead[n].readable
        /\ headersRead[n].extended_headers # <<>>
        /\ \A e \in 1..Len(headersRead[n].extended_headers) :
               ClaimedLabel(headersRead[n].extended_headers[e].ElectrodeLabel) # "none"

\* C6: when make ends on a session with n >= 1 matching well-formed files,
\* it has returned, and there are exactly n EphysRecording rows, with file
\* indices 0..n-1 in listing order, and for the file of index f with m
\* electrodes exactly m Channel rows, with channel indices 0..m-1 in
\* header order.
C6_RowsPerFileAndChannel ==
    (pc = "idle" /\ outcome # "none" /\ Len(nsx_path) >= 1 /\ WellFormed) =>
        /\ outcome = "returned"
        /\ Cardinality(EphysRecording) = Len(nsx_path)
        /\ \A f \in 0..(Len(nsx_path) - 1) :
               /\ \E r \in EphysRecording :
                      r["ephys_file_id"] = f /\ r["ephys_file_path"] = nsx_path[f + 1]
               /\ LET hs == headersRead[f + 1].extended_headers
                      cs == { c \in Channel : c["ephys_file_id"] = f }
                  IN  /\ Cardinality(cs) = Len(hs)
                      /\ \A j \in 0..(Len(hs) - 1) :
                             \E c \in cs : /\ c["channel_index"] = j
                                           /\ c["channel_id"] = hs[j + 1].ElectrodeID

\* C7: the label in every key handed to Channel.insert1, and so in every
\* Channel row, is the one the rules give that channel's own electrode
\* label; an electrode label no rule matches leaves the key without label.
C7_LabelOfOwnElectrode ==
    /\ \A n \in 1..Len(channelKeys) :
           LabelIn(channelKeys[n]) = ClaimedLabel(ElectrodeOf(channelKeys[n]).ElectrodeLabel)
    /\ \A c \in Channel :
           LabelIn(c) = ClaimedLabel(ElectrodeOf(c).ElectrodeLabel)

\* A key without label was made for an electrode no rule matches, right
\* after a channel that got a label.
C7_Witness ==
    \E n \in 2..Len(channelKeys) :
        /\ LabelIn(channelKeys[n]) = "none"
        /\ ElectrodeOf(channelKeys[n]).ElectrodeLabel = LWeird
        /\ LabelIn(channelKeys[n - 1]) = "brain"
        /\ channelKeys[n - 1] \in Channel

\* C9: once the processing of a file has ended, by the end of its iteration
\* or by an error, no NsxFile that was opened is left open.
C9_HandlesClosed ==
    pc = "idle" => openHandles = {}

====
